---- MODULE Spec2Model ----
(***************************************************************************)
(* A model of src/app/page.tsx: the App view/controller (startResearch,    *)
(* downloadPdf and the input handlers), the research client's handling of  *)
(* an upstream response, and the Typewriter component.                     *)
(*                                                                         *)
(* Strings that the code inspects character by character are sequences of  *)
(* one-character strings; the model's answer text is a sequence of lexical *)
(* tokens.  JavaScript's undefined is UNDEF, a null error is NULL and a    *)
(* null result is NullResult.                                              *)
(***************************************************************************)
EXTENDS Integers, Sequences, FiniteSets, TLC

VARIABLES
    query,          \* useState('')      line 85
    apiKey,         \* useState('')      line 86
    result,         \* useState(null)    line 87
    loading,        \* useState(false)   line 88
    error,          \* useState(null)    line 89
    jspdfLoaded,    \* whether window.jspdf is defined (script of lines 94-97)
    inflight,       \* the calls of startResearch suspended at an await: at
                    \* the fetch of line 137, or at response.json() of line
                    \* 147 with the response the fetch resolved with
    fetchCount,     \* how many times line 137 has called fetch
    lastOp,         \* history: the handler that took the last step
    lastResp        \* history: the response the last call settled with, in
                    \* SpecClient; NoResp from a dispatch until then

\* One Typewriter component, lines 56-82.
VARIABLES
    twMounted,      \* whether the component is mounted
    twText,         \* the text prop of the last committed render
    twSpeed,        \* the speed prop of the last committed render
    displayedText,  \* useState('')  line 57
    twQueue,        \* updates given to setDisplayedText and not yet rendered
    twEffect,       \* "run": the effect of lines 59-74 is due; "cleanup": the
                    \* cleanup of an unmounted component is due; else "none"
    twGen,          \* how many times the effect has run
    twTimers,       \* per effect run that called setInterval: its text, its
                    \* counter i, whether its interval is still set, and
                    \* (history) how many times its callback has run
    twChanged       \* history: the text prop has changed since the mount

\* One PDF export, lines 187-244.
VARIABLES
    pdfMetrics,     \* what the PDF library measures for the displayed result:
                    \* the lines of the topic (line 206) and of the summary
                    \* (line 210), the height of each title (line 228)
    pdfDoc          \* the document given to pdf.save at line 236, if any

appVars == <<query, apiKey, result, loading, error, jspdfLoaded, inflight,
             fetchCount, lastOp, lastResp>>

twVars == <<twMounted, twText, twSpeed, displayedText, twQueue, twEffect,
            twGen, twTimers, twChanged>>

pdfVars == <<pdfMetrics, pdfDoc>>

vars == <<appVars, twVars, pdfVars>>

-----------------------------------------------------------------------------
(* Bounds of the model.                                                    *)

MaxInputLen == 1    \* characters in the credential and in the topic
MaxFetch == 2       \* research calls dispatched in one run
MaxTextLen == 3     \* tokens in an answer text
MaxAttr == 2        \* grounding attributions in a response
MaxTwLen == 2       \* characters in a Typewriter text
MaxEffects == 3     \* runs of the Typewriter's effect in one run
MaxSources == 2     \* sources of the result a PDF is made of

SeqsUpTo(S, n) == UNION {[1..k -> S] : k \in 0..n}

-----------------------------------------------------------------------------
(* Values.                                                                 *)

UNDEF == "<undefined>"
NULL == "<null>"
NullResult == [null |-> TRUE]

InputChars == {" ", "a"}
InputStrs == SeqsUpTo(InputChars, MaxInputLen)

IsSpace(c) == c = " "

\* String.prototype.trim: drops leading and trailing white space.
RECURSIVE TrimLeft(_)
TrimLeft(s) ==
    IF s # <<>> /\ IsSpace(Head(s)) THEN TrimLeft(Tail(s)) ELSE s

RECURSIVE TrimRight(_)
TrimRight(s) ==
    IF s # <<>> /\ IsSpace(s[Len(s)])
    THEN TrimRight(SubSeq(s, 1, Len(s) - 1))
    ELSE s

Trim(s) == TrimRight(TrimLeft(s))

\* The messages the code passes to setError.
MsgNoKey == "Please provide an API key."
MsgNoTopic == "Please enter a topic to research."
MsgNoCandidate == "No response from the model."
MsgWeirdFormat == "The model returned a weird format. Try again."
MsgUnknown == "An unknown error happened."
MsgPdfNotReady == "Can't download PDF yet. The PDF library might still be loading."
MsgPdfFailedWith == "Something went wrong making the PDF: <err.message>"
MsgPdfFailed == "Something went wrong making the PDF."
\* Messages of errors the runtime raises.
MsgFailedToFetch == "Failed to fetch"
MsgBodyNotJson == "Unexpected token < in JSON at position 0"
MsgNullData == "Cannot read properties of null (reading 'candidates')"

Statuses == {200, 404, 500}

\* `API call failed! Status: ${response.status}`
HttpMsg(status) ==
    CASE status = 404 -> "API call failed! Status: 404"
      [] status = 500 -> "API call failed! Status: 500"
      [] OTHER -> "API call failed! Status: <other>"

HttpMsgs == {HttpMsg(s) : s \in Statuses}
MissingInputMsgs == {MsgNoKey, MsgNoTopic}

\* Response.ok: the status is in the range 200-299.
ResponseOk(status) == status >= 200 /\ status <= 299

-----------------------------------------------------------------------------
(* The answer text of a candidate, as a sequence of tokens.  Each token     *)
(* stands for one fixed piece of text, and a sequence for the pieces put    *)
(* end to end.  The pieces are chosen so that no two of them join into a    *)
(* longer JSON value or into a fence: the JSON values are an object or an   *)
(* array, never a number, whose digits would join with those of the next.   *)

TokFenceJson == "FENCE_JSON"    \* the characters ```json
TokFence == "FENCE"             \* the characters ```
TokNewline == "NEWLINE"         \* a line feed
TokProse == "PROSE"             \* the word Sure: no JSON and no fence
ValFull == "OBJ_TOPIC_SUMMARY"  \* {"topic":"Topic","summary":"Summary"}
ValTopicOnly == "OBJ_TOPIC"     \* the object {"topic":"Topic"}
ValOther == "JSON_OTHER"        \* the array []: JSON without topic or summary

JsonValues == {ValFull, ValTopicOnly, ValOther}
Tokens == {TokFenceJson, TokFence, TokNewline, TokProse} \cup JsonValues
Texts == SeqsUpTo(Tokens, MaxTextLen)

TopicText == "Topic"
SummaryText == "Summary"

Min(S) == CHOOSE x \in S : \A y \in S : x <= y

\* rawText.replace(/```json\n?/, ""): the first ```json, with the line feed
\* that follows it if there is one, is removed wherever it stands.
StripOpeningFence(toks) ==
    LET at == {k \in 1..Len(toks) : toks[k] = TokFenceJson}
    IN  IF at = {} THEN toks
        ELSE LET k == Min(at)
                 n == IF k < Len(toks) /\ toks[k + 1] = TokNewline THEN 2 ELSE 1
             IN  SubSeq(toks, 1, k - 1) \o SubSeq(toks, k + n, Len(toks))

\* .replace(/```$/, ""): a ``` is removed only at the very end of the text.
StripClosingFence(toks) ==
    IF toks # <<>> /\ toks[Len(toks)] = TokFence
    THEN SubSeq(toks, 1, Len(toks) - 1)
    ELSE toks

StripFences(rawText) == StripClosingFence(StripOpeningFence(rawText))

RECURSIVE SkipWsLeft(_)
SkipWsLeft(toks) ==
    IF toks # <<>> /\ Head(toks) = TokNewline THEN SkipWsLeft(Tail(toks)) ELSE toks

RECURSIVE SkipWsRight(_)
SkipWsRight(toks) ==
    IF toks # <<>> /\ toks[Len(toks)] = TokNewline
    THEN SkipWsRight(SubSeq(toks, 1, Len(toks) - 1))
    ELSE toks

\* What the spread {...parsedContent} copies out of a parsed JSON value.
ParsedKeys(value) ==
    [topic |-> IF value \in {ValFull, ValTopicOnly} THEN TopicText ELSE UNDEF,
     summary |-> IF value = ValFull THEN SummaryText ELSE UNDEF]

\* JSON.parse: exactly one JSON value, white space allowed around it;
\* anything else throws a SyntaxError.  Two of the values above side by
\* side are }{, }[, ]{ or ][ where they meet, which is no JSON.
JsonParse(jsonString) ==
    LET core == SkipWsRight(SkipWsLeft(jsonString))
    IN  IF Len(core) = 1 /\ core[1] \in JsonValues
        THEN [ok |-> TRUE, keys |-> ParsedKeys(core[1])]
        ELSE [ok |-> FALSE, keys |-> ParsedKeys(ValOther)]

-----------------------------------------------------------------------------
(* Grounding attributions and the Source list.                             *)

TitleVals == {UNDEF, "", "t1", "t2"}
UriVals == {UNDEF, "u1"}
NoWeb == [web |-> FALSE, title |-> UNDEF, uri |-> UNDEF]
Attributions == {NoWeb} \cup [web : {TRUE}, title : TitleVals, uri : UriVals]
AttrLists == SeqsUpTo(Attributions, MaxAttr)

Truthy(s) == s # UNDEF /\ s # ""

\* { title: attr.web?.title || '', uri: attr.web?.uri || '' }
ToSource(attr) ==
    [title |-> IF attr.web /\ Truthy(attr.title) THEN attr.title ELSE "",
     uri |-> IF attr.web /\ Truthy(attr.uri) THEN attr.uri ELSE ""]

\* KeepSource with the title test left out.
KeepSourceUriOnly(source) == Truthy(source.uri)

KeepSource(source) == Truthy(source.uri) /\ Truthy(source.title)

\* groundingMetadata?.groundingAttributions?.map(...).filter(...) || []
ExtractSources(candidate) ==
    IF ~candidate.hasGrounding THEN <<>>
    ELSE LET mapped == [k \in 1..Len(candidate.attrs) |-> ToSource(candidate.attrs[k])]
         IN  SelectSeq(mapped, KeepSource)

-----------------------------------------------------------------------------
(* Upstream responses.                                                     *)

ErrorValue(m) == [isError |-> TRUE, message |-> m]
NonErrorValue == [isError |-> FALSE, message |-> ""]
RejectionValues == {ErrorValue(MsgFailedToFetch), ErrorValue(""), NonErrorValue}

Candidate(hasText, text, hasGrounding, attrs) ==
    [hasText |-> hasText, text |-> text,
     hasGrounding |-> hasGrounding, attrs |-> attrs]

BodyNotJson == [kind |-> "notjson", candidates |-> <<>>]
BodyNull == [kind |-> "null", candidates |-> <<>>]
BodyData(candidates) == [kind |-> "data", candidates |-> candidates]

Rejected(e) == [kind |-> "rejected", err |-> e, status |-> 0, body |-> BodyNull]
Received(status, body) ==
    [kind |-> "response", err |-> NonErrorValue, status |-> status, body |-> body]
NoResp == [kind |-> "none", err |-> NonErrorValue, status |-> 0, body |-> BodyNull]

FencedFull == <<TokFenceJson, TokNewline, ValFull, TokFence>>
TwoAttrs == <<[web |-> TRUE, title |-> "t1", uri |-> "u1"],
              [web |-> TRUE, title |-> "t2", uri |-> UNDEF]>>

\* The bodies a research call is checked against: every answer text with no
\* grounding metadata and with the two attributions above, and every
\* attribution list under a bare and under a fenced well-formed answer.
Candidates ==
    {Candidate(TRUE, t, FALSE, <<>>) : t \in Texts}
    \cup {Candidate(TRUE, t, TRUE, TwoAttrs) : t \in Texts}
    \cup {Candidate(FALSE, <<>>, g, <<>>) : g \in BOOLEAN}
    \cup {Candidate(TRUE, t, TRUE, a) : t \in {<<ValFull>>, FencedFull}, a \in AttrLists}

Bodies ==
    {BodyNotJson, BodyNull, BodyData(<<>>)} \cup {BodyData(<<c>>) : c \in Candidates}

Responses ==
    {Rejected(e) : e \in RejectionValues}
    \cup {Received(s, b) : s \in Statuses, b \in Bodies}

\* A smaller set of responses, one or more of each class.
SampleBodies ==
    {BodyNotJson, BodyNull, BodyData(<<>>),
     BodyData(<<Candidate(FALSE, <<>>, FALSE, <<>>)>>),
     BodyData(<<Candidate(TRUE, <<TokProse>>, FALSE, <<>>)>>),
     BodyData(<<Candidate(TRUE, <<ValOther>>, FALSE, <<>>)>>),
     BodyData(<<Candidate(TRUE, <<ValTopicOnly>>, TRUE, TwoAttrs)>>),
     BodyData(<<Candidate(TRUE, <<ValFull>>, FALSE, <<>>)>>),
     BodyData(<<Candidate(TRUE, FencedFull, TRUE, TwoAttrs)>>)}

SampleResponses ==
    {Rejected(e) : e \in RejectionValues}
    \cup {Received(200, b) : b \in SampleBodies}
    \cup {Received(s, b) : s \in {404, 500}, b \in {BodyNotJson, BodyData(<<>>)}}

-----------------------------------------------------------------------------
(* The body of startResearch's try block, lines 137-174, on a response.    *)

Throw(e) == [threw |-> TRUE, err |-> e, value |-> NullResult]
Return(v) == [threw |-> FALSE, err |-> NonErrorValue, value |-> v]

\* candidate.content?.parts?.[0]?.text || ''
RawText(candidate) == IF candidate.hasText THEN candidate.text ELSE <<>>

ResearchAttempt(r) ==
    IF r.kind = "rejected" THEN Throw(r.err)
    ELSE IF ~ResponseOk(r.status) THEN Throw(ErrorValue(HttpMsg(r.status)))
    ELSE IF r.body.kind = "notjson" THEN Throw(ErrorValue(MsgBodyNotJson))
    ELSE IF r.body.kind = "null" THEN Throw(ErrorValue(MsgNullData))
    ELSE IF r.body.candidates = <<>> THEN Throw(ErrorValue(MsgNoCandidate))
    ELSE LET candidate == r.body.candidates[1]
             parsed == JsonParse(StripFences(RawText(candidate)))
         IN  IF ~parsed.ok THEN Throw(ErrorValue(MsgWeirdFormat))
             ELSE Return([null |-> FALSE,
                          topic |-> parsed.keys.topic,
                          summary |-> parsed.keys.summary,
                          sources |-> ExtractSources(candidate)])

\* The catch block, lines 176-181: the message given to setError.
CatchMessage(e) ==
    IF e.isError
    THEN IF e.message # "" THEN e.message ELSE MsgUnknown
    ELSE MsgUnknown

-----------------------------------------------------------------------------
(* The App component: state after the first render, and its handlers.      *)

Op(name, via) == [op |-> name, via |-> via]

AppInit ==
    /\ query = <<>>
    /\ apiKey = <<>>
    /\ result = NullResult
    /\ loading = FALSE
    /\ error = NULL
    /\ jspdfLoaded = FALSE
    /\ inflight = {}
    /\ fetchCount = 0
    /\ lastOp = Op("init", "-")
    /\ lastResp = NoResp

\* The script appended at lines 94-97 has run: window.jspdf is defined.
ScriptLoaded ==
    /\ ~jspdfLoaded
    /\ jspdfLoaded' = TRUE
    /\ lastOp' = Op("scriptLoaded", "-")
    /\ UNCHANGED <<query, apiKey, result, loading, error, inflight, fetchCount, lastResp>>

\* onChange of the credential input, line 270.
SetApiKey(v) ==
    /\ v # apiKey
    /\ apiKey' = v
    /\ lastOp' = Op("setApiKey", "-")
    /\ UNCHANGED <<query, result, loading, error, jspdfLoaded, inflight, fetchCount, lastResp>>

\* onChange of the topic textarea, line 280; the textarea is disabled while
\* loading, line 289.
SetQuery(v) ==
    /\ ~loading
    /\ v # query
    /\ query' = v
    /\ lastOp' = Op("setQuery", "-")
    /\ UNCHANGED <<apiKey, result, loading, error, jspdfLoaded, inflight, fetchCount, lastResp>>

\* A call suspended at the fetch of line 137.
NewCall(id) ==
    [id |-> id, query |-> query, apiKey |-> apiKey, at |-> "fetch", resp |-> NoResp]

\* Dispatch with setResult(null), line 118, left out.
DispatchKeepsResult ==
    /\ fetchCount < MaxFetch
    /\ loading' = TRUE
    /\ error' = NULL
    /\ result' = result
    /\ fetchCount' = fetchCount + 1
    /\ inflight' = inflight \cup {NewCall(fetchCount + 1)}
    /\ lastResp' = NoResp

\* Lines 116-141: the three state updates and the fetch.
Dispatch ==
    /\ fetchCount < MaxFetch
    /\ loading' = TRUE
    /\ error' = NULL
    /\ result' = NullResult
    /\ fetchCount' = fetchCount + 1
    /\ inflight' = inflight \cup {NewCall(fetchCount + 1)}
    /\ lastResp' = NoResp

\* StartResearch with the topic test of lines 111-114 left out.
StartResearchNoTopicCheck(via) ==
    /\ lastOp' = Op("startResearch", via)
    /\ UNCHANGED <<query, apiKey, jspdfLoaded>>
    /\ IF apiKey = <<>>
       THEN /\ error' = MsgNoKey
            /\ UNCHANGED <<result, loading, inflight, fetchCount, lastResp>>
       ELSE Dispatch

\* StartResearch with the result and the error cleared before the inputs
\* are tested.
StartResearchClearsFirst(via) ==
    /\ lastOp' = Op("startResearch", via)
    /\ UNCHANGED <<query, apiKey, jspdfLoaded>>
    /\ IF apiKey = <<>>
       THEN /\ error' = MsgNoKey
            /\ result' = NullResult
            /\ UNCHANGED <<loading, inflight, fetchCount, lastResp>>
       ELSE IF query = <<>>
       THEN /\ error' = MsgNoTopic
            /\ result' = NullResult
            /\ UNCHANGED <<loading, inflight, fetchCount, lastResp>>
       ELSE Dispatch

\* startResearch up to its first await, lines 106-141.
StartResearch(via) ==
    /\ lastOp' = Op("startResearch", via)
    /\ UNCHANGED <<query, apiKey, jspdfLoaded>>
    /\ IF apiKey = <<>>
       THEN /\ error' = MsgNoKey
            /\ UNCHANGED <<result, loading, inflight, fetchCount, lastResp>>
       ELSE IF query = <<>>
       THEN /\ error' = MsgNoTopic
            /\ UNCHANGED <<result, loading, inflight, fetchCount, lastResp>>
       ELSE Dispatch

\* The submit button, lines 295-297.
ClickSubmit ==
    /\ ~(loading \/ Trim(query) = <<>> \/ Trim(apiKey) = <<>>)
    /\ StartResearch("click")

\* PressEnter with the textarea left enabled while loading.
PressEnterWhileBusy == StartResearch("enter")

\* Enter without shift in the topic textarea, lines 281-286 and 289.
PressEnter ==
    /\ ~loading
    /\ StartResearch("enter")

\* Finish with setLoading(false) after the try block only, not in a finally.
FinishNoFinally(c, attempt) ==
    /\ inflight' = inflight \ {c}
    /\ result' = IF attempt.threw THEN result ELSE attempt.value
    /\ error' = IF attempt.threw THEN CatchMessage(attempt.err) ELSE error
    /\ loading' = IF attempt.threw THEN loading ELSE FALSE
    /\ lastOp' = Op("settle", "-")
    /\ UNCHANGED <<query, apiKey, jspdfLoaded, fetchCount>>

\* Finish with one more fetch issued after a failure.
FinishRetries(c, attempt) ==
    /\ IF attempt.threw /\ fetchCount < MaxFetch
       THEN /\ inflight' = (inflight \ {c}) \cup {NewCall(fetchCount + 1)}
            /\ fetchCount' = fetchCount + 1
            /\ UNCHANGED <<result, error, loading>>
       ELSE /\ inflight' = inflight \ {c}
            /\ result' = IF attempt.threw THEN result ELSE attempt.value
            /\ error' = IF attempt.threw THEN CatchMessage(attempt.err) ELSE error
            /\ loading' = FALSE
            /\ UNCHANGED fetchCount
    /\ lastOp' = Op("settle", "-")
    /\ UNCHANGED <<query, apiKey, jspdfLoaded>>

\* Finish with no catch and no finally around a failing attempt.
FinishUncaught(c, attempt) ==
    /\ inflight' = inflight \ {c}
    /\ result' = IF attempt.threw THEN result ELSE attempt.value
    /\ loading' = IF attempt.threw THEN loading ELSE FALSE
    /\ lastOp' = Op("settle", "-")
    /\ UNCHANGED <<query, apiKey, error, jspdfLoaded, fetchCount>>

\* The end of the call c, whose try block went as attempt says: setResult of
\* line 174 or the catch of lines 176-181, then the finally of lines 182-184.
Finish(c, attempt) ==
    /\ inflight' = inflight \ {c}
    /\ result' = IF attempt.threw THEN result ELSE attempt.value
    /\ error' = IF attempt.threw THEN CatchMessage(attempt.err) ELSE error
    /\ loading' = FALSE
    /\ lastOp' = Op("settle", "-")
    /\ UNCHANGED <<query, apiKey, jspdfLoaded, fetchCount>>

\* The fetch of the call c settles with r, lines 137-147. A rejection or a
\* status that is not 2xx goes to the catch and the call ends in this step;
\* otherwise response.json() is called and the call is suspended again.
FetchSettles(c, r) ==
    /\ c \in inflight
    /\ c.at = "fetch"
    /\ IF r.kind = "rejected" \/ ~ResponseOk(r.status)
       THEN Finish(c, ResearchAttempt(r))
       ELSE /\ inflight' = (inflight \ {c}) \cup {[c EXCEPT !.at = "json", !.resp = r]}
            /\ lastOp' = Op("fetchResolved", "-")
            /\ UNCHANGED <<query, apiKey, result, loading, error, jspdfLoaded,
                           fetchCount>>

\* response.json() of the call c settles, and lines 147-184 run.
JsonSettles(c) ==
    /\ c \in inflight
    /\ c.at = "json"
    /\ Finish(c, ResearchAttempt(c.resp))

-----------------------------------------------------------------------------
(* The layout of the PDF, lines 195-236. Lengths are in mm.                *)

pageHeight == 297   \* pdf.internal.pageSize.getHeight() of an 'a4' page
margin == 20

\* The titles a source can have.
PdfTitles == {"t" \o ToString(k) : k \in 1..MaxSources} \cup (TitleVals \ {UNDEF, ""})

\* What the library may measure.
TopicLineCounts == {1, 2}
SummaryLineCounts == {1, 28, 29, 31}
TitleHeights == {4, 12}

\* The drawing cursor: the page, yPosition, and what has been drawn so far.
StartOfDocument == [page |-> 1, yPosition |-> margin, ops |-> <<>>]

\* if (yPosition + need > pageHeight - margin) { pdf.addPage(); yPosition = margin; }
AddPageIf(cur, need) ==
    IF cur.yPosition + need > pageHeight - margin
    THEN [cur EXCEPT !.page = @ + 1, !.yPosition = margin]
    ELSE cur

\* pdf.text / pdf.textWithLink at yPosition on the current page.
Draw(cur, kind, text) ==
    [cur EXCEPT !.ops = Append(@, [kind |-> kind, text |-> text,
                                   page |-> cur.page, y |-> cur.yPosition])]

\* yPosition += dy
Advance(cur, dy) == [cur EXCEPT !.yPosition = @ + dy]

\* The body of the forEach, lines 223-233, for a title of height h.
DrawSource(cur, source, h) ==
    LET checked == AddPageIf(cur, 12)
        titled == Advance(Draw(checked, "title", source.title), h + 2)
    IN  Advance(Draw(titled, "link", source.uri), 10)

RECURSIVE DrawSources(_, _, _, _)
DrawSources(cur, sources, titleH, k) ==
    IF k > Len(sources) THEN cur
    ELSE DrawSources(DrawSource(cur, sources[k], titleH[sources[k].title]),
                     sources, titleH, k + 1)

\* Lines 198-236 for the result res and the measures m, when nothing throws.
RenderPdf(res, m) ==
    LET topic == Advance(Draw(StartOfDocument, "topic", res.topic),
                         m.topicLines * 10 + 10)
        summary == Advance(Draw(topic, "summary", res.summary),
                           m.summaryLines * 7 + 10)
        heading == Advance(Draw(AddPageIf(summary, 10), "heading", "Sources"), 8)
        end == IF Len(res.sources) > 0
               THEN DrawSources(heading, res.sources, m.titleH, 1)
               ELSE summary
    IN  [saved |-> TRUE, pages |-> end.page, ops |-> end.ops]

NoDoc == [saved |-> FALSE, pages |-> 0, ops |-> <<>>]

\* Before any export: no document, and measures of a library that finds
\* every text one line long.
PdfInit ==
    /\ pdfMetrics = [topicLines |-> 1, summaryLines |-> 1,
                     titleH |-> [t \in PdfTitles |-> 4]]
    /\ pdfDoc = NoDoc

PdfFailures == {"none", "error", "nonError"}

\* What the drawing and saving of lines 195-236 throws. The library decides
\* (failure); when it throws nothing of its own, pdf.text at line 205 throws
\* an Error for a topic that is undefined.
RenderThrows(res, failure) ==
    IF failure = "none" /\ res.topic = UNDEF THEN "error" ELSE failure

\* DownloadPdf with the result dropped when the export cannot be made.
DownloadPdfClearsResult(failure) ==
    /\ lastOp' = Op("downloadPdf", "-")
    /\ UNCHANGED <<query, apiKey, loading, jspdfLoaded, inflight, fetchCount, lastResp>>
    /\ UNCHANGED pdfMetrics
    /\ IF result.null \/ ~jspdfLoaded
       THEN error' = MsgPdfNotReady /\ result' = NullResult /\ UNCHANGED pdfDoc
       ELSE LET thrown == RenderThrows(result, failure)
            IN  /\ result' = result
                /\ error' = CASE thrown = "error" -> MsgPdfFailedWith
                              [] thrown = "nonError" -> MsgPdfFailed
                              [] OTHER -> error
                /\ pdfDoc' = IF thrown = "none"
                             THEN RenderPdf(result, pdfMetrics) ELSE pdfDoc

\* downloadPdf, lines 187-244: the message for an export that cannot be
\* made or that throws, or the document saved at line 236.
DownloadPdf(failure) ==
    /\ lastOp' = Op("downloadPdf", "-")
    /\ UNCHANGED <<query, apiKey, result, loading, jspdfLoaded, inflight, fetchCount, lastResp>>
    /\ UNCHANGED pdfMetrics
    /\ IF result.null \/ ~jspdfLoaded
       THEN error' = MsgPdfNotReady /\ UNCHANGED pdfDoc
       ELSE LET thrown == RenderThrows(result, failure)
            IN  /\ error' = CASE thrown = "error" -> MsgPdfFailedWith
                              [] thrown = "nonError" -> MsgPdfFailed
                              [] OTHER -> error
                /\ pdfDoc' = IF thrown = "none"
                             THEN RenderPdf(result, pdfMetrics) ELSE pdfDoc

\* The Download PDF button is rendered only with a result, lines 325-335.
ClickDownload ==
    /\ ~result.null
    /\ \E failure \in PdfFailures : DownloadPdf(failure)

\* startResearch invoked while a call is in flight, by a path that does not
\* go through the disabled controls: the function itself has no busy test.
Reenter == loading /\ StartResearch("reentry")

-----------------------------------------------------------------------------
(* The Typewriter component, lines 56-82.                                  *)

TwChars == {"a", "b"}
TwTexts == SeqsUpTo(TwChars, MaxTwLen)
TwSpeeds == {20, 50}

\* String.prototype.charAt with a 0-based index: '' out of range.
CharAt(text, i) == IF i >= 0 /\ i < Len(text) THEN <<text[i + 1]>> ELSE <<>>

TwInit ==
    /\ twMounted = FALSE
    /\ twText = <<>>
    /\ twSpeed = 20
    /\ displayedText = <<>>
    /\ twQueue = <<>>
    /\ twEffect = "none"
    /\ twGen = 0
    /\ twTimers = <<>>
    /\ twChanged = FALSE

\* The entries of twQueue.
Reset == [kind |-> "reset", value |-> <<>>, gen |-> 0]      \* line 60
Value(v, g) == [kind |-> "value", value |-> v, gen |-> g]   \* line 65, computed
Updater(g) == [kind |-> "updater", value |-> <<>>, gen |-> g] \* line 65, kept

\* prev => prev + text.charAt(i), with the text and the counter i of the
\* effect run g read when the function is called.
ApplyUpdate(prev, u, timers) ==
    IF u.kind = "updater"
    THEN prev \o CharAt(timers[u.gen].text, timers[u.gen].i)
    ELSE u.value

RECURSIVE ApplyQueue(_, _, _)
ApplyQueue(prev, queue, timers) ==
    IF queue = <<>> THEN prev
    ELSE ApplyQueue(ApplyUpdate(prev, Head(queue), timers), Tail(queue), timers)

\* The effect runs whose closure can still be reached: the interval is set,
\* or an updater that reads it is queued.
Reachable(timers, queue) ==
    {g \in DOMAIN timers :
        timers[g].live \/ \E k \in 1..Len(queue) :
                             queue[k].kind = "updater" /\ queue[k].gen = g}

Keep(timers, queue) == [g \in Reachable(timers, queue) |-> timers[g]]

\* clearInterval(intervalId) for the effect run g, lines 68 and 72.
ClearInterval(timers, g) ==
    [h \in DOMAIN timers |->
        IF h = g THEN [timers[h] EXCEPT !.live = FALSE] ELSE timers[h]]

\* Cleanup with the effect returning no cleanup function.
CleanupNoClear(timers) == timers

\* The cleanup the last effect run returned, line 72; a run with an empty
\* text returned none.
Cleanup(timers) ==
    IF twGen \in DOMAIN timers THEN ClearInterval(timers, twGen) ELSE timers

\* First render of a new instance: displayedText is '' and the effect is due.
TwMount(text, speed) ==
    /\ ~twMounted
    /\ twEffect = "none"
    /\ twGen < MaxEffects
    /\ twMounted' = TRUE
    /\ twText' = text
    /\ twSpeed' = speed
    /\ displayedText' = <<>>
    /\ twQueue' = <<>>
    /\ twEffect' = "run"
    /\ twChanged' = FALSE
    /\ UNCHANGED <<twGen, twTimers>>

\* A render with new props: the queued updates are applied, and the effect
\* is due since text or speed changed, line 74.
TwPropsChange(text, speed) ==
    /\ twMounted
    /\ twEffect = "none"
    /\ twGen < MaxEffects
    /\ <<text, speed>> # <<twText, twSpeed>>
    /\ twText' = text
    /\ twSpeed' = speed
    /\ displayedText' = ApplyQueue(displayedText, twQueue, twTimers)
    /\ twQueue' = <<>>
    /\ twTimers' = Keep(twTimers, <<>>)
    /\ twEffect' = "run"
    /\ twChanged' = (twChanged \/ text # twText)
    /\ UNCHANGED <<twMounted, twGen>>

\* The effect of lines 59-74, after the cleanup of the run before it; or the
\* cleanup alone for a component that was unmounted.
TwRunEffect ==
    /\ twEffect # "none"
    /\ IF twEffect = "cleanup"
       THEN /\ twTimers' = Keep(Cleanup(twTimers), twQueue)
            /\ UNCHANGED <<twQueue, twGen>>
       ELSE LET queue == Append(twQueue, Reset)
                cleaned == Cleanup(twTimers)
                started == IF twText # <<>>
                           THEN (twGen + 1) :> [text |-> twText, speed |-> twSpeed,
                                                i |-> 0, live |-> TRUE,
                                                ticks |-> 0]
                           ELSE <<>>
            IN  /\ twQueue' = queue
                /\ twGen' = twGen + 1
                /\ twTimers' = Keep(started @@ cleaned, queue)
    /\ twEffect' = "none"
    /\ UNCHANGED <<twMounted, twText, twSpeed, displayedText, twChanged>>

\* setDisplayedText(prev => prev + text.charAt(i)) called by the effect run
\* g: on an unmounted component nothing is queued; with nothing queued the
\* function may be called at once (eager), otherwise it is kept for the
\* next render.
SetDisplayedText(g, eager) ==
    IF ~twMounted THEN twQueue
    ELSE IF eager /\ twQueue = <<>>
    THEN <<Value(ApplyUpdate(displayedText, Updater(g), twTimers), g)>>
    ELSE Append(twQueue, Updater(g))

\* The callback of the effect run g has run once more.
Ticked(timers, g) == [timers EXCEPT ![g].ticks = @ + 1]

\* TwTick with the interval left set when the text is used up.
TwTickNoClear(g, eager) ==
    /\ twTimers[g].live
    /\ eager => (twMounted /\ twQueue = <<>> /\ twTimers[g].i < Len(twTimers[g].text))
    /\ IF twTimers[g].i < Len(twTimers[g].text)
       THEN LET queue == SetDisplayedText(g, eager)
            IN  /\ twQueue' = queue
                /\ twTimers' = Keep(Ticked([twTimers EXCEPT ![g].i = @ + 1], g), queue)
       ELSE /\ twTimers' = Keep(Ticked(twTimers, g), twQueue)
            /\ UNCHANGED twQueue
    /\ UNCHANGED <<twMounted, twText, twSpeed, displayedText, twEffect, twGen,
                   twChanged>>

\* One call of the interval's callback, lines 63-70, for the effect run g.
TwTick(g, eager) ==
    /\ twTimers[g].live
    /\ eager => (twMounted /\ twQueue = <<>> /\ twTimers[g].i < Len(twTimers[g].text))
    /\ IF twTimers[g].i < Len(twTimers[g].text)
       THEN LET queue == SetDisplayedText(g, eager)
            IN  /\ twQueue' = queue
                /\ twTimers' = Keep(Ticked([twTimers EXCEPT ![g].i = @ + 1], g), queue)
       ELSE /\ twTimers' = Keep(Ticked(ClearInterval(twTimers, g), g), twQueue)
            /\ UNCHANGED twQueue
    /\ UNCHANGED <<twMounted, twText, twSpeed, displayedText, twEffect, twGen,
                   twChanged>>

\* A render for the queued updates; pending effects are flushed first.
TwRender ==
    /\ twMounted
    /\ twEffect = "none"
    /\ twQueue # <<>>
    /\ displayedText' = ApplyQueue(displayedText, twQueue, twTimers)
    /\ twQueue' = <<>>
    /\ twTimers' = Keep(twTimers, <<>>)
    /\ UNCHANGED <<twMounted, twText, twSpeed, twEffect, twGen, twChanged>>

\* The component is removed: its state and its queued updates go with it,
\* and its cleanup is due.
TwUnmount ==
    /\ twMounted
    /\ twEffect = "none"
    /\ twMounted' = FALSE
    /\ twText' = <<>>
    /\ twSpeed' = 20
    /\ displayedText' = <<>>
    /\ twQueue' = <<>>
    /\ twTimers' = Keep(twTimers, <<>>)
    /\ twEffect' = "cleanup"
    /\ twChanged' = FALSE
    /\ UNCHANGED twGen
-----------------------------------------------------------------------------
(* Specifications.                                                         *)

Init == AppInit /\ TwInit /\ PdfInit

\* The characters of the summary given to the Typewriter at line 337: none
\* for an undefined summary, one for a summary.
TextOf(summary) == IF summary = UNDEF THEN <<>> ELSE <<"a">>

\* {result && ... <Typewriter text={result.summary} /> ...}, lines 325-337:
\* the render that follows a step of the App mounts the Typewriter when a
\* result is set, unmounts it when the result is cleared, and gives it the
\* new summary when the result is replaced. A render waits for the effects
\* of the render before it.
RenderTypewriter ==
    IF result'.null
    THEN IF twMounted THEN TwUnmount ELSE UNCHANGED twVars
    ELSE IF ~twMounted THEN TwMount(TextOf(result'.summary), 20)
    ELSE IF TextOf(result'.summary) # twText
    THEN TwPropsChange(TextOf(result'.summary), twSpeed)
    ELSE UNCHANGED twVars

\* The fetch of some call settles with some response.
FetchSettlesSome ==
    \E c \in {d \in inflight : d.at = "fetch"}, r \in SampleResponses :
        /\ FetchSettles(c, r)
        /\ RenderTypewriter
        /\ UNCHANGED <<lastResp, pdfVars>>

\* The body of some response has been read.
JsonSettlesSome ==
    \E c \in inflight :
        /\ JsonSettles(c)
        /\ RenderTypewriter
        /\ UNCHANGED <<lastResp, pdfVars>>

\* The steps of the mounted Typewriter: its effect, its interval, its renders.
TypewriterStep ==
    \/ TwRunEffect
    \/ \E g \in DOMAIN twTimers, eager \in BOOLEAN : TwTick(g, eager)
    \/ TwRender

\* The view/controller driven through its controls.
Next ==
    \/ ScriptLoaded /\ UNCHANGED <<twVars, pdfVars>>
    \/ \E v \in InputStrs : SetApiKey(v) /\ UNCHANGED <<twVars, pdfVars>>
    \/ \E v \in InputStrs : SetQuery(v) /\ UNCHANGED <<twVars, pdfVars>>
    \/ ClickSubmit /\ RenderTypewriter /\ UNCHANGED pdfVars
    \/ PressEnter /\ RenderTypewriter /\ UNCHANGED pdfVars
    \/ FetchSettlesSome
    \/ JsonSettlesSome
    \/ ClickDownload /\ UNCHANGED twVars
    \/ TypewriterStep /\ UNCHANGED <<appVars, pdfVars>>

Spec == Init /\ [][Next]_vars

\* The same machine with every fetch settling (the promise of lines 137-141
\* resolves or rejects) and every effect that is due run by React. Nothing
\* is assumed of response.json().
SpecLive ==
    /\ Init
    /\ [][Next]_vars
    /\ WF_vars(FetchSettlesSome)
    /\ WF_vars(TwRunEffect /\ UNCHANGED <<appVars, pdfVars>>)

\* One research client: valid inputs, every response of Responses, and the
\* response each call settled with kept in lastResp.
InitClient ==
    /\ query = <<"a">>
    /\ apiKey = <<"a">>
    /\ result = NullResult
    /\ loading = FALSE
    /\ error = NULL
    /\ jspdfLoaded = FALSE
    /\ inflight = {}
    /\ fetchCount = 0
    /\ lastOp = Op("init", "-")
    /\ lastResp = NoResp
    /\ TwInit
    /\ PdfInit

\* The two steps of a call, with lastResp set when the call ends.
FetchSettlesRecorded(c, r) ==
    /\ FetchSettles(c, r)
    /\ lastResp' = IF r.kind = "rejected" \/ ~ResponseOk(r.status) THEN r ELSE lastResp
    /\ RenderTypewriter
    /\ UNCHANGED pdfVars

JsonSettlesRecorded(c) ==
    /\ JsonSettles(c)
    /\ lastResp' = c.resp
    /\ RenderTypewriter
    /\ UNCHANGED pdfVars

NextClient ==
    \/ ClickSubmit /\ RenderTypewriter /\ UNCHANGED pdfVars
    \/ TypewriterStep /\ UNCHANGED <<appVars, pdfVars>>
    \/ \E c \in {d \in inflight : d.at = "fetch"}, r \in Responses :
          FetchSettlesRecorded(c, r)
    \/ \E c \in inflight : JsonSettlesRecorded(c)

SpecClient == InitClient /\ [][NextClient]_vars

\* Overlapping research calls: valid inputs, the submit button, re-entry
\* while busy, and the response each call settled with kept in lastResp.
NextReentry ==
    \/ ClickSubmit /\ RenderTypewriter /\ UNCHANGED pdfVars
    \/ Reenter /\ RenderTypewriter /\ UNCHANGED pdfVars
    \/ TypewriterStep /\ UNCHANGED <<appVars, pdfVars>>
    \/ \E c \in {d \in inflight : d.at = "fetch"}, r \in SampleResponses :
          FetchSettlesRecorded(c, r)
    \/ \E c \in inflight : JsonSettlesRecorded(c)

SpecReentry == InitClient /\ [][NextReentry]_vars

\* One Typewriter under every interleaving of renders, effects, timer ticks,
\* prop changes and unmounts.
InitTw == AppInit /\ TwInit /\ PdfInit

NextTw ==
    \/ \E t \in TwTexts, s \in TwSpeeds : TwMount(t, s) /\ UNCHANGED <<appVars, pdfVars>>
    \/ \E t \in TwTexts, s \in TwSpeeds : TwPropsChange(t, s) /\ UNCHANGED <<appVars, pdfVars>>
    \/ TwRunEffect /\ UNCHANGED <<appVars, pdfVars>>
    \/ \E g \in DOMAIN twTimers, eager \in BOOLEAN : TwTick(g, eager) /\ UNCHANGED <<appVars, pdfVars>>
    \/ TwRender /\ UNCHANGED <<appVars, pdfVars>>
    \/ TwUnmount /\ UNCHANGED <<appVars, pdfVars>>

SpecTw == InitTw /\ [][NextTw]_vars

\* The k-th source of a displayed result.
PdfSource(k) == [title |-> "t" \o ToString(k), uri |-> "u" \o ToString(k)]

\* The PDF export of a displayed result: a research call has settled with a
\* well-formed result of up to MaxSources sources, the Typewriter has been
\* mounted for it, and the library's measures of its texts are drawn from
\* the sets above.
InitPdf ==
    /\ query = <<"a">>
    /\ apiKey = <<"a">>
    /\ \E n \in 0..MaxSources :
          result = [null |-> FALSE, topic |-> TopicText, summary |-> SummaryText,
                    sources |-> [k \in 1..n |-> PdfSource(k)]]
    /\ loading = FALSE
    /\ error = NULL
    /\ jspdfLoaded = FALSE
    /\ inflight = {}
    /\ fetchCount = 1
    /\ lastOp = Op("settle", "-")
    /\ lastResp = NoResp
    /\ twMounted = TRUE
    /\ twText = TextOf(result.summary)
    /\ twSpeed = 20
    /\ displayedText = <<>>
    /\ twQueue = <<>>
    /\ twEffect = "run"
    /\ twGen = 0
    /\ twTimers = <<>>
    /\ twChanged = FALSE
    /\ pdfMetrics \in [topicLines : TopicLineCounts,
                       summaryLines : SummaryLineCounts,
                       titleH : [PdfTitles -> TitleHeights]]
    /\ \A t \in PdfTitles :
          (\A k \in 1..Len(result.sources) : result.sources[k].title # t)
              => pdfMetrics.titleH[t] = 4
    /\ pdfDoc = NoDoc

NextPdf ==
    \/ ScriptLoaded /\ UNCHANGED <<twVars, pdfVars>>
    \/ ClickDownload /\ UNCHANGED twVars
    \/ TypewriterStep /\ UNCHANGED <<appVars, pdfVars>>

SpecPdf == InitPdf /\ [][NextPdf]_vars

-----------------------------------------------------------------------------
(* Claims.                                                                 *)

\* C1: the displayed error and the displayed result are never both set.
C1_ErrorXorResult == ~(error # NULL /\ ~result.null)

\* C2: an invocation of startResearch with an empty credential or an empty
\* topic issues no fetch and sets the error to the message for the missing
\* input, whatever the state before it.
C2_MissingInputNoFetch ==
    [][(lastOp'.op = "startResearch" /\ (apiKey = <<>> \/ query = <<>>))
          => /\ fetchCount' = fetchCount
             /\ inflight' = inflight
             /\ error' = IF apiKey = <<>> THEN MsgNoKey ELSE MsgNoTopic]_vars

\* Enter was pressed with an empty topic while a result was displayed.
C2_Witness ==
    /\ lastOp = Op("startResearch", "enter")
    /\ query = <<>>
    /\ apiKey # <<>>
    /\ error = MsgNoTopic
    /\ ~result.null

\* C3: a result in the result slot always has a topic and a summary.
C3_ResultWellFormed ==
    ~result.null => (result.topic # UNDEF /\ result.summary # UNDEF)

\* C4: a dispatch takes the controller from idle to busy with both slots
\* cleared, and the call's completion takes it back to idle with exactly one
\* of result and error set.
C4_OneOutcomePerCall ==
    [][/\ (fetchCount' # fetchCount)
            => (~loading /\ loading' /\ result'.null /\ error' = NULL)
       /\ (lastOp'.op = "settle" /\ inflight' # inflight)
            => /\ loading /\ ~loading'
               /\ \/ ~result'.null /\ error' = NULL
                  \/ result'.null /\ error' # NULL]_vars

\* The second call of a run has failed with an HTTP error.
C4_Witness ==
    /\ lastOp.op = "settle"
    /\ fetchCount = 2
    /\ ~loading
    /\ result.null
    /\ error \in HttpMsgs

\* C5: while a call is in flight the controller is busy and neither a result
\* nor an error is set.
C5_NothingShownInFlight ==
    /\ loading <=> inflight # {}
    /\ loading => (result.null /\ error = NULL)

\* The credential was edited while the second call of a run was in flight.
C5_Witness ==
    /\ loading
    /\ inflight # {}
    /\ fetchCount = 2
    /\ lastOp.op = "setApiKey"
    /\ apiKey = <<>>

AnswerOf(r) == RawText(r.body.candidates[1])
HasCandidate(r) ==
    r.kind = "response" /\ ResponseOk(r.status) /\ r.body.kind = "data"
    /\ r.body.candidates # <<>>

Complete(attr) ==
    attr.web /\ attr.title \notin {UNDEF, ""} /\ attr.uri \notin {UNDEF, ""}

\* sources is the subsequence of the complete attributions of attrs, in order.
IsCompleteSubsequence(sources, attrs) ==
    LET idx == {k \in 1..Len(attrs) : Complete(attrs[k])}
        rank(k) == Cardinality({m \in idx : m <= k})
    IN  /\ Len(sources) = Cardinality(idx)
        /\ \A k \in idx :
              /\ sources[rank(k)].title = attrs[k].title
              /\ sources[rank(k)].uri = attrs[k].uri

\* C7: the sources of a result are the attributions with a title and a URI,
\* in the order of the response, every stored source has both, and a response
\* without grounding metadata succeeds with no sources.
C7_SourcesFiltered ==
    /\ ~result.null =>
          \A k \in 1..Len(result.sources) :
              result.sources[k].title # "" /\ result.sources[k].uri # ""
    /\ (HasCandidate(lastResp) /\ JsonParse(StripFences(AnswerOf(lastResp))).ok) =>
          LET candidate == lastResp.body.candidates[1]
          IN  /\ ~result.null
              /\ IsCompleteSubsequence(result.sources,
                    IF candidate.hasGrounding THEN candidate.attrs ELSE <<>>)

\* The fenced answer with one complete attribution and one without a URI.
C7_Witness ==
    /\ HasCandidate(lastResp)
    /\ AnswerOf(lastResp) = FencedFull
    /\ lastResp.body.candidates[1].attrs = TwoAttrs
    /\ ~result.null
    /\ result.sources = <<[title |-> "t1", uri |-> "u1"]>>

IsPrefix(p, t) == Len(p) <= Len(t) /\ p = SubSeq(t, 1, Len(p))

\* The reset of the current effect run has been rendered.
TwSettled ==
    /\ twMounted
    /\ twEffect = "none"
    /\ \A k \in 1..Len(twQueue) : twQueue[k].kind # "reset"

\* C8: once the reset is rendered the displayed string is a prefix of the
\* text, and when the interval has cleared itself and nothing is queued the
\* displayed string is the text.
C8_RevealsText ==
    TwSettled =>
        /\ IsPrefix(displayedText, twText)
        /\ (twQueue = <<>> /\ \A g \in DOMAIN twTimers : ~twTimers[g].live)
              => displayedText = twText

\* The callback of the interval g runs in this step.
TickOf(g) ==
    /\ twTimers[g].live
    /\ twEffect' = twEffect
    /\ twMounted' = twMounted
    /\ IF g \in DOMAIN twTimers'
       THEN twTimers'[g].ticks = twTimers[g].ticks + 1
       ELSE TRUE

\* C9, as stated: once the text or the speed has changed, or the component
\* is unmounted, no callback of the old interval runs: every callback that
\* runs belongs to the interval of the current text and speed of a mounted
\* component; and at most one interval is set.
C9_NoTickOfOldTimer ==
    /\ [][\A g \in DOMAIN twTimers :
             TickOf(g) => /\ twMounted
                          /\ twTimers[g].text = twText
                          /\ twTimers[g].speed = twSpeed]_vars
    /\ [](Cardinality({g \in DOMAIN twTimers : twTimers[g].live}) <= 1)

\* C9, amended: every interval still set belongs to the last run of the
\* effect, so there is at most one; once the effects are flushed it is the
\* interval of the current text and speed, and none is left after an unmount.
\* What a callback of an old interval asked for between the render and the
\* flush is never displayed: nothing is queued for an unmounted component,
\* and on a mounted one every queued update of an earlier effect run is
\* followed by the reset of the current run.
C9_OneLiveTimer ==
    LET live == {g \in DOMAIN twTimers : twTimers[g].live}
    IN  /\ \A g \in live : g = twGen
        /\ Cardinality(live) <= 1
        /\ twEffect = "none" =>
              /\ ~twMounted => live = {}
              /\ \A g \in live : /\ twTimers[g].text = twText
                                 /\ twTimers[g].speed = twSpeed
        /\ ~twMounted => twQueue = <<>>
        /\ (twMounted /\ twEffect = "none") =>
              \A k \in 1..Len(twQueue) :
                  (twQueue[k].kind # "reset" /\ twQueue[k].gen # twGen)
                      => \E j \in (k + 1)..Len(twQueue) : twQueue[j].kind = "reset"

\* A new text arrived in mid reveal and the old interval ticked once more
\* before the effects were flushed: the old interval is now cleared, the new
\* one is set, and the old updater is queued ahead of the reset.
C9_Witness ==
    /\ twMounted
    /\ twEffect = "none"
    /\ twGen \in DOMAIN twTimers
    /\ twTimers[twGen].live
    /\ \E k \in 1..Len(twQueue) :
          /\ twQueue[k].kind = "updater"
          /\ twQueue[k].gen < twGen
          /\ ~twTimers[twQueue[k].gen].live
          /\ twTimers[twQueue[k].gen].text # twText
          /\ \E j \in (k + 1)..Len(twQueue) : twQueue[j].kind = "reset"

\* C10: a PDF export with a result and without the PDF library leaves the
\* result and the error as they were.
C10_ExportLeavesState ==
    [][(lastOp'.op = "downloadPdf" /\ ~result.null /\ ~jspdfLoaded)
          => (result' = result /\ error' = error)]_vars


\* C11: a PDF export is made only with a result set, and whatever its
\* outcome it leaves loading and the result as they were and issues no fetch.
C11_ExportFrame ==
    [][lastOp'.op = "downloadPdf"
          => /\ ~result.null
             /\ result' = result
             /\ loading' = loading
             /\ fetchCount' = fetchCount
             /\ inflight' = inflight]_vars

\* An export of a well-formed result failed inside the library.
C11_Witness ==
    /\ lastOp.op = "downloadPdf"
    /\ jspdfLoaded
    /\ ~result.null
    /\ result.topic # UNDEF
    /\ error = MsgPdfFailed
    /\ ~loading


\* C14: with research started only through the submit button and Enter, at
\* most one research call is in flight.
C14_SingleFlight == Cardinality(inflight) <= 1

\* The second call of a run, started with the button, is in flight alone.
C14_Witness ==
    /\ lastOp = Op("startResearch", "click")
    /\ loading
    /\ fetchCount = 2
    /\ Cardinality(inflight) = 1


\* C19: fetch is called once by each startResearch that passes the input
\* tests, also for a topic already researched, and by nothing else: a call
\* that settles, with a result or with any failure, issues no further fetch.
C19_OneFetchPerSubmission ==
    [][/\ (fetchCount' # fetchCount)
            => /\ lastOp'.op = "startResearch"
               /\ apiKey # <<>> /\ query # <<>>
               /\ fetchCount' = fetchCount + 1
               /\ Cardinality(inflight') = Cardinality(inflight) + 1
       /\ (lastOp'.op = "settle")
            => (fetchCount' = fetchCount /\ inflight' \subseteq inflight)
       /\ (lastOp'.op = "startResearch" /\ lastOp' # lastOp
              /\ apiKey # <<>> /\ query # <<>>)
            => fetchCount' = fetchCount + 1]_vars

\* Two submissions of the same topic made two fetches; the second failed
\* with an HTTP error and nothing is in flight.
C19_Witness ==
    /\ fetchCount = 2
    /\ inflight = {}
    /\ lastResp.kind = "response"
    /\ lastResp.status = 500
    /\ error = HttpMsg(500)

\* C20: a startResearch that finds the credential or the topic empty changes
\* the error alone: result, loading, credential and topic stay as they were.
C20_MissingInputFrame ==
    [][(lastOp'.op = "startResearch" /\ (apiKey = <<>> \/ query = <<>>))
          => /\ result' = result
             /\ loading' = loading
             /\ apiKey' = apiKey
             /\ query' = query]_vars

\* Enter was pressed with an empty credential while a well-formed result
\* was displayed: the result is still there.
C20_Witness ==
    /\ lastOp = Op("startResearch", "enter")
    /\ apiKey = <<>>
    /\ error = MsgNoKey
    /\ ~result.null
    /\ result.summary # UNDEF
    /\ ~loading


\* C16, as stated: a research call that ends has loading false and, when it
\* produced no result, an error message displayed; a PDF export changes no
\* App state but the error, to one of its own messages; and every dispatched
\* call whose fetch settles brings loading back to false.
C16_ErrorsCaughtThenIdle ==
    /\ [][/\ (lastOp'.op = "settle")
               => (~loading' /\ (result'.null => error' # NULL))
          /\ (lastOp'.op = "downloadPdf")
               => /\ loading' = loading
                  /\ error' \in {error, MsgPdfNotReady, MsgPdfFailedWith, MsgPdfFailed}]_vars
    /\ (loading ~> ~loading)

\* C16, amended: the same, except that a dispatched call whose fetch settles
\* either brings loading back to false or is left waiting for
\* response.json(); the step that follows response.json() is a "settle"
\* step, which sets loading false.
C16_IdleWhenBodyRead ==
    /\ [][/\ (lastOp'.op = "settle")
               => (~loading' /\ (result'.null => error' # NULL))
          /\ (lastOp'.op = "downloadPdf")
               => /\ loading' = loading
                  /\ error' \in {error, MsgPdfNotReady, MsgPdfFailedWith, MsgPdfFailed}]_vars
    /\ (loading ~> (~loading \/ \E c \in inflight : c.at = "json"))

\* The second submission was made after a failure, and it too settled with a
\* failure (a 2xx body that is not JSON): the controller is idle again with
\* the message displayed.
C16_Witness ==
    /\ lastOp.op = "settle"
    /\ fetchCount = 2
    /\ inflight = {}
    /\ ~loading
    /\ result.null
    /\ error = MsgBodyNotJson


\* The result and the error a call leaves when it runs alone and settles
\* with r: both cleared at dispatch, then one of them set.
Alone(r) ==
    LET attempt == ResearchAttempt(r)
    IN  IF attempt.threw
        THEN <<NullResult, CatchMessage(attempt.err)>>
        ELSE <<attempt.value, NULL>>

\* C15: once every call has completed, overlapping or not, the result and
\* the error are those the last response to arrive would have produced alone.
C15_LaterResponseWins ==
    (inflight = {} /\ lastResp.kind # "none") => <<result, error>> = Alone(lastResp)


\* C17: the callback of an interval runs at most Len(text) + 1 times, the
\* last of them clearing the interval; an empty text sets no interval, and
\* once its reset is rendered the displayed string is empty.
C17_TimerTerminates ==
    /\ \A g \in DOMAIN twTimers :
          /\ twTimers[g].text # <<>>
          /\ twTimers[g].i <= Len(twTimers[g].text)
          /\ twTimers[g].ticks <= Len(twTimers[g].text) + 1
          /\ twTimers[g].ticks = Len(twTimers[g].text) + 1 => ~twTimers[g].live
    /\ (twMounted /\ twEffect = "none" /\ twText = <<>>)
          => \A g \in DOMAIN twTimers : ~twTimers[g].live
    /\ (TwSettled /\ twText = <<>>) => displayedText = <<>>

\* The interval of the current text cleared itself on its tick number
\* Len(text) + 1, its last updater not yet rendered.
C17_Witness ==
    /\ twMounted
    /\ twEffect = "none"
    /\ twGen \in DOMAIN twTimers
    /\ twTimers[twGen].text = twText
    /\ Len(twText) = 2
    /\ ~twTimers[twGen].live
    /\ twTimers[twGen].ticks = 3

\* C18: after a change of the text, once the reset of the new text is
\* rendered, every displayed string is a prefix of the new text.
C18_RestartsOnNewText ==
    (TwSettled /\ twChanged) => IsPrefix(displayedText, twText)


\* What is drawn of the source list, in drawing order.
DrawnOfKind(kinds) == SelectSeq(pdfDoc.ops, LAMBDA op : op.kind \in kinds)

\* Each source's title, then its link, in list order.
RECURSIVE TitlesAndLinks(_)
TitlesAndLinks(sources) ==
    IF sources = <<>> THEN <<>>
    ELSE <<Head(sources).title, Head(sources).uri>> \o TitlesAndLinks(Tail(sources))

\* From the first title to the last link of the first k sources, laid out
\* with no page break: each entry but the last takes its title's height
\* and 12, the last its title's height and 2.
RECURSIVE EntriesExtent(_)
EntriesExtent(k) ==
    IF k = 0 THEN 0
    ELSE LET h == pdfMetrics.titleH[result.sources[k].title]
         IN  IF k = Len(result.sources)
             THEN EntriesExtent(k - 1) + h + 2
             ELSE EntriesExtent(k - 1) + h + 12

\* The source entries do not fit under the heading on the first page.
EntriesOverflowFirstPage ==
    \E j \in 1..Len(pdfDoc.ops) :
        /\ pdfDoc.ops[j].kind = "heading"
        /\ pdfDoc.ops[j].page = 1
        /\ pdfDoc.ops[j].y + 8 + EntriesExtent(Len(result.sources))
              > pageHeight - margin

\* C12: a saved document has the Sources heading exactly when the result has
\* sources, each title and link once and in list order, and more than one
\* page when the source entries do not fit on the first page.
C12_SourcesSection ==
    pdfDoc.saved =>
        /\ Len(DrawnOfKind({"heading"})) = (IF Len(result.sources) > 0 THEN 1 ELSE 0)
        /\ [k \in 1..Len(DrawnOfKind({"title", "link"})) |->
               DrawnOfKind({"title", "link"})[k].text] = TitlesAndLinks(result.sources)
        /\ EntriesOverflowFirstPage => pdfDoc.pages > 1

\* C13: in a saved document nothing is drawn below the bottom margin.
C13_NothingPastBottomMargin ==
    pdfDoc.saved =>
        \A j \in 1..Len(pdfDoc.ops) : pdfDoc.ops[j].y <= pageHeight - margin

====
